---------------------------- MODULE Spec2Model ----------------------------
(***************************************************************************)
(* A model of lending_club/processing.py: the nine table-to-table cleaning *)
(* steps and execute_processing, which pipes a loans table through them.   *)
(*                                                                         *)
(* Representation.                                                         *)
(*  - A string is a tuple of one-character strings, so that str.strip,     *)
(*    str.replace, str.upper and pd.to_numeric are computed character by   *)
(*    character.                                                           *)
(*  - A cell is a record [k, s, n]: k = "nan" (missing), k = "str" (the    *)
(*    string s) or k = "num" (the number n / Unit).  Numbers are exact     *)
(*    rationals with denominator Unit; the inputs carry at most two        *)
(*    decimals, so the linear interpolation of quantile(0.05) and          *)
(*    quantile(0.95) is exact (pandas computes it in binary floating       *)
(*    point).                                                              *)
(*  - A column is [name, dtype, data]: dtype is "object" or "number" and   *)
(*    data maps each row label of the table to a cell.                     *)
(*  - A table (pd.DataFrame) is [index, columns]: the set of row labels    *)
(*    and the sequence of columns.                                         *)
(***************************************************************************)
EXTENDS Integers, Sequences, FiniteSets, TLC

VARIABLES
    pc,       \* the step execute_processing runs next (one more than the last: it returned)
    input,    \* the table execute_processing was called with, as it was at the call
    hist,     \* hist[k]: the table step k returned, as it was when it returned
    argPost,  \* the table object passed to the last step, as it is after that step
    loans,    \* the table the last step returned (the input before step 1)
    ran,      \* the steps started so far, in order
    err       \* the exception that ended the run (kind "none" while there is none)

vars == <<pc, input, hist, argPost, loans, ran, err>>

---------------------------------------------------------------------------
(* Bounds of the model *)

\* the largest number of rows of an input table
MaxRows == 3

---------------------------------------------------------------------------
(* Numbers *)

\* quantile(0.05) and quantile(0.95) are QLow/QDen and QHigh/QDen
QDen == 20
QLow == 1
QHigh == 19

\* a number cell holds n / Unit
Unit == QDen * 100

Max(a, b) == IF a >= b THEN a ELSE b
Min(a, b) == IF a <= b THEN a ELSE b

---------------------------------------------------------------------------
(* Strings *)

LowerCase == <<"a", "b", "c", "d", "e", "f", "g", "h", "i", "j", "k", "l", "m", "n", "o", "p", "q", "r", "s", "t", "u", "v", "w", "x", "y", "z">>
UpperCase == <<"A", "B", "C", "D", "E", "F", "G", "H", "I", "J", "K", "L", "M", "N", "O", "P", "Q", "R", "S", "T", "U", "V", "W", "X", "Y", "Z">>
Digits    == <<"0", "1", "2", "3", "4", "5", "6", "7", "8", "9">>

\* the characters of the model's strings in code-point order
Ascii == <<" ", "%", "+", ".", "/">> \o Digits \o <<"<">> \o UpperCase \o <<"_">> \o LowerCase

IndexOf(seq, c) == CHOOSE i \in 1..Len(seq) : seq[i] = c
InSeq(seq, c) == \E i \in 1..Len(seq) : seq[i] = c
Ord(c) == IndexOf(Ascii, c)

\* str.upper() on one character
UpperChar(c) == IF InSeq(LowerCase, c) THEN UpperCase[IndexOf(LowerCase, c)] ELSE c

\* str.upper()
StrUpper(s) == [i \in 1..Len(s) |-> UpperChar(s[i])]

\* str.replace(old, "") for a one-character old
StrRemove(s, old) == SelectSeq(s, LAMBDA c : c # old)

RECURSIVE LStrip(_, _)
LStrip(s, chars) ==
    IF s # <<>> /\ Head(s) \in chars THEN LStrip(Tail(s), chars) ELSE s

RECURSIVE RStrip(_, _)
RStrip(s, chars) ==
    IF s # <<>> /\ s[Len(s)] \in chars
    THEN RStrip(SubSeq(s, 1, Len(s) - 1), chars)
    ELSE s

\* str.strip(chars): drops leading and trailing characters that are in chars
StrStrip(s, chars) == RStrip(LStrip(s, chars), chars)

SetOf(seq) == {seq[i] : i \in 1..Len(seq)}

\* s < t in the order sorted() gives strings
RECURSIVE StrLess(_, _)
StrLess(s, t) ==
    IF t = <<>> THEN FALSE
    ELSE IF s = <<>> THEN TRUE
    ELSE IF Head(s) = Head(t) THEN StrLess(Tail(s), Tail(t))
    ELSE Ord(Head(s)) < Ord(Head(t))

RECURSIVE DigitsValue(_)
DigitsValue(s) ==
    IF s = <<>> THEN 0
    ELSE 10 * DigitsValue(SubSeq(s, 1, Len(s) - 1)) + (IndexOf(Digits, s[Len(s)]) - 1)

AllDigits(s) == \A i \in 1..Len(s) : InSeq(Digits, s[i])

DotAt(s) == IF InSeq(s, ".") THEN IndexOf(s, ".") ELSE Len(s) + 1
IntPart(s) == SubSeq(s, 1, DotAt(s) - 1)
FracPart(s) == SubSeq(s, DotAt(s) + 1, Len(s))

\* whether pd.to_numeric parses s: digits, optionally a point and one or two decimals
Parses(s) ==
    /\ IntPart(s) # <<>>
    /\ AllDigits(IntPart(s))
    /\ AllDigits(FracPart(s))
    /\ Len(FracPart(s)) <= 2
    /\ (DotAt(s) <= Len(s) => FracPart(s) # <<>>)

\* the number pd.to_numeric gives s, in units of 1 / Unit
ParseNum(s) ==
    DigitsValue(IntPart(s)) * Unit
    + (CASE Len(FracPart(s)) = 0 -> 0
         [] Len(FracPart(s)) = 1 -> DigitsValue(FracPart(s)) * (Unit \div 10)
         [] OTHER -> DigitsValue(FracPart(s)) * (Unit \div 100))

---------------------------------------------------------------------------
(* Cells, columns, tables *)

NaN == [k |-> "nan", s |-> <<>>, n |-> 0]
Str(s) == [k |-> "str", s |-> s, n |-> 0]
Num(n) == [k |-> "num", s |-> <<>>, n |-> n]

IsNa(c) == c.k = "nan"

Column(name, dtype, data) == [name |-> name, dtype |-> dtype, data |-> data]
Table(index, columns) == [index |-> index, columns |-> columns]

ColNames(t) == {t.columns[i].name : i \in 1..Len(t.columns)}
HasCol(t, name) == name \in ColNames(t)

\* t[name]
Col(t, name) == t.columns[CHOOSE i \in 1..Len(t.columns) : t.columns[i].name = name]

\* len(t)
NRows(t) == Cardinality(t.index)

\* Series.count(): the non-missing cells of a column
Count(t, c) == Cardinality({r \in t.index : ~IsNa(c.data[r])})

\* Series.nunique(): the distinct non-missing cells of a column
NUnique(t, c) == Cardinality({c.data[r] : r \in {x \in t.index : ~IsNa(c.data[x])}})

\* t.drop(columns=names), for names that are all present
Drop(t, names) == Table(t.index, SelectSeq(t.columns, LAMBDA c : c.name \notin names))

\* t.assign(name=series): replaces the column called name, or appends one
Assign(t, name, dtype, data) ==
    IF HasCol(t, name)
    THEN Table(t.index,
               [i \in 1..Len(t.columns) |->
                   IF t.columns[i].name = name THEN Column(name, dtype, data)
                   ELSE t.columns[i]])
    ELSE Table(t.index, Append(t.columns, Column(name, dtype, data)))

\* t[rows]: the rows of t whose label is in rows, every column kept
Rows(t, rows) ==
    Table(rows,
          [i \in 1..Len(t.columns) |->
              Column(t.columns[i].name, t.columns[i].dtype,
                     [r \in rows |-> t.columns[i].data[r]])])

\* what a step leaves behind: the table object it was passed (arg) and the table
\* it returns (ret).  A step that builds a new DataFrame leaves its argument as it
\* was; a step that assigns into its argument and returns it leaves the result in
\* both.
NewTable(arg, result) == [arg |-> arg, ret |-> result]
InPlace(result) == [arg |-> result, ret |-> result]

---------------------------------------------------------------------------
(* MAPPING: the three lookup tables.  A key is a cell (np.nan is a key of *)
(* emp_length_map), a value is an integer.                                *)

grade_map ==
    (Str(<<"A">>) :> 1) @@ (Str(<<"B">>) :> 2) @@ (Str(<<"C">>) :> 3) @@ (Str(<<"D">>) :> 4)
    @@ (Str(<<"E">>) :> 5) @@ (Str(<<"F">>) :> 6) @@ (Str(<<"G">>) :> 7)

loan_status_map == (Str(<<"F", "u", "l", "l", "y", " ", "P", "a", "i", "d">>) :> 0) @@ (Str(<<"C", "h", "a", "r", "g", "e", "d", " ", "O", "f", "f">>) :> 1)

\* emp_length_map without its np.nan key
emp_length_map_without_nan ==
    (Str(<<"1", "0", "+", " ", "y", "e", "a", "r", "s">>) :> 10) @@ (Str(<<"9", " ", "y", "e", "a", "r", "s">>) :> 9) @@ (Str(<<"8", " ", "y", "e", "a", "r", "s">>) :> 8)
    @@ (Str(<<"7", " ", "y", "e", "a", "r", "s">>) :> 7) @@ (Str(<<"6", " ", "y", "e", "a", "r", "s">>) :> 6) @@ (Str(<<"5", " ", "y", "e", "a", "r", "s">>) :> 5)
    @@ (Str(<<"4", " ", "y", "e", "a", "r", "s">>) :> 4) @@ (Str(<<"3", " ", "y", "e", "a", "r", "s">>) :> 3) @@ (Str(<<"2", " ", "y", "e", "a", "r", "s">>) :> 2)
    @@ (Str(<<"1", " ", "y", "e", "a", "r">>) :> 1) @@ (Str(<<"<", " ", "1", " ", "y", "e", "a", "r">>) :> 0)

emp_length_map ==
    (Str(<<"1", "0", "+", " ", "y", "e", "a", "r", "s">>) :> 10) @@ (Str(<<"9", " ", "y", "e", "a", "r", "s">>) :> 9) @@ (Str(<<"8", " ", "y", "e", "a", "r", "s">>) :> 8)
    @@ (Str(<<"7", " ", "y", "e", "a", "r", "s">>) :> 7) @@ (Str(<<"6", " ", "y", "e", "a", "r", "s">>) :> 6) @@ (Str(<<"5", " ", "y", "e", "a", "r", "s">>) :> 5)
    @@ (Str(<<"4", " ", "y", "e", "a", "r", "s">>) :> 4) @@ (Str(<<"3", " ", "y", "e", "a", "r", "s">>) :> 3) @@ (Str(<<"2", " ", "y", "e", "a", "r", "s">>) :> 2)
    @@ (Str(<<"1", " ", "y", "e", "a", "r">>) :> 1) @@ (Str(<<"<", " ", "1", " ", "y", "e", "a", "r">>) :> 0) @@ (NaN :> 0)

\* Series.map(dict) on one cell: the dict's value for a key, missing for anything else
MapCell(c, map) == IF c \in DOMAIN map THEN Num(map[c] * Unit) ELSE NaN

\* Series.map(dict)
MapSeries(t, c, map) == [r \in t.index |-> MapCell(c.data[r], map)]

---------------------------------------------------------------------------
(* Step 1: filter_loan_status *)

KeptStatuses == {Str(<<"F", "u", "l", "l", "y", " ", "P", "a", "i", "d">>), Str(<<"C", "h", "a", "r", "g", "e", "d", " ", "O", "f", "f">>)}

filter_loan_status_raises(t) ==
    IF ~HasCol(t, <<"l", "o", "a", "n", "_", "s", "t", "a", "t", "u", "s">>) THEN "KeyError" ELSE "none"

filter_loan_status(t) ==
    NewTable(t, Rows(t, {r \in t.index : Col(t, <<"l", "o", "a", "n", "_", "s", "t", "a", "t", "u", "s">>).data[r] \in KeptStatuses}))

---------------------------------------------------------------------------
(* Step 2: filter_missing_data *)

\* thresh=int(len(loans) / 2)
Thresh(t) == NRows(t) \div 2

\* filter_missing_data with dropna(..., inplace=True)
filter_missing_data_inplace(t) ==
    InPlace(Table(t.index, SelectSeq(t.columns, LAMBDA c : Count(t, c) >= Thresh(t))))

\* dropna(thresh=..., axis="columns") keeps the columns with at least thresh
\* non-missing cells
filter_missing_data(t) ==
    NewTable(t, Table(t.index, SelectSeq(t.columns, LAMBDA c : Count(t, c) >= Thresh(t))))

---------------------------------------------------------------------------
(* Step 3: filter_non_unique_values *)

\* loans.loc[:, loans.nunique() != 1]
filter_non_unique_values(t) ==
    NewTable(t, Table(t.index, SelectSeq(t.columns, LAMBDA c : NUnique(t, c) # 1)))

---------------------------------------------------------------------------
(* Step 4: remove_unnecessary_columns *)

\* the hard-coded list of drop(columns=[...]), in its order, total_rec_late_fee twice
UnnecessaryColumns ==
    << <<"i", "d">>, <<"c", "o", "l", "l", "e", "c", "t", "i", "o", "n", "_", "r", "e", "c", "o", "v", "e", "r", "y", "_", "f", "e", "e">>, <<"t", "o", "t", "a", "l", "_", "r", "e", "c", "_", "l", "a", "t", "e", "_", "f", "e", "e">>,
       <<"d", "e", "b", "t", "_", "s", "e", "t", "t", "l", "e", "m", "e", "n", "t", "_", "f", "l", "a", "g">>, <<"u", "r", "l">>, <<"d", "e", "s", "c">>, <<"t", "o", "t", "a", "l", "_", "p", "y", "m", "n", "t">>, <<"t", "o", "t", "a", "l", "_", "p", "y", "m", "n", "t", "_", "i", "n", "v">>,
       <<"r", "e", "c", "o", "v", "e", "r", "i", "e", "s">>, <<"z", "i", "p", "_", "c", "o", "d", "e">>, <<"s", "u", "b", "_", "g", "r", "a", "d", "e">>, <<"e", "m", "p", "_", "t", "i", "t", "l", "e">>, <<"i", "n", "t", "_", "r", "a", "t", "e">>,
       <<"l", "a", "s", "t", "_", "f", "i", "c", "o", "_", "r", "a", "n", "g", "e", "_", "h", "i", "g", "h">>, <<"l", "a", "s", "t", "_", "f", "i", "c", "o", "_", "r", "a", "n", "g", "e", "_", "l", "o", "w">>, <<"i", "s", "s", "u", "e", "_", "d">>,
       <<"t", "o", "t", "a", "l", "_", "r", "e", "c", "_", "p", "r", "n", "c", "p">>, <<"t", "o", "t", "a", "l", "_", "r", "e", "c", "_", "i", "n", "t">>, <<"t", "o", "t", "a", "l", "_", "r", "e", "c", "_", "l", "a", "t", "e", "_", "f", "e", "e">>, <<"l", "a", "s", "t", "_", "p", "y", "m", "n", "t", "_", "d">>,
       <<"l", "a", "s", "t", "_", "p", "y", "m", "n", "t", "_", "a", "m", "n", "t">>, <<"f", "u", "n", "d", "e", "d", "_", "a", "m", "n", "t">>, <<"f", "u", "n", "d", "e", "d", "_", "a", "m", "n", "t", "_", "i", "n", "v">>,
       <<"p", "u", "b", "_", "r", "e", "c", "_", "b", "a", "n", "k", "r", "u", "p", "t", "c", "i", "e", "s">>, <<"p", "u", "b", "_", "r", "e", "c">>, <<"d", "e", "l", "i", "n", "q", "_", "2", "y", "r", "s">>, <<"e", "a", "r", "l", "i", "e", "s", "t", "_", "c", "r", "_", "l", "i", "n", "e">>,
       <<"l", "a", "s", "t", "_", "c", "r", "e", "d", "i", "t", "_", "p", "u", "l", "l", "_", "d">>, <<"a", "d", "d", "r", "_", "s", "t", "a", "t", "e">>, <<"t", "i", "t", "l", "e">> >>

\* drop(columns=[...], errors="ignore")
remove_unnecessary_columns_ignores(t) == "none"

\* drop raises when a listed label is not a column
remove_unnecessary_columns_raises(t) ==
    IF SetOf(UnnecessaryColumns) \subseteq ColNames(t) THEN "none" ELSE "KeyError"

remove_unnecessary_columns(t) == NewTable(t, Drop(t, SetOf(UnnecessaryColumns)))

---------------------------------------------------------------------------
(* Step 5: map_categorical *)

map_categorical_raises(t) ==
    IF \E name \in {<<"g", "r", "a", "d", "e">>, <<"e", "m", "p", "_", "l", "e", "n", "g", "t", "h">>, <<"l", "o", "a", "n", "_", "s", "t", "a", "t", "u", "s">>} : ~HasCol(t, name)
    THEN "KeyError" ELSE "none"

map_categorical(t) ==
    LET a == Assign(t, <<"g", "r", "a", "d", "e">>, "number", MapSeries(t, Col(t, <<"g", "r", "a", "d", "e">>), grade_map))
        b == Assign(a, <<"e", "m", "p", "_", "l", "e", "n", "g", "t", "h">>, "number",
                    MapSeries(t, Col(t, <<"e", "m", "p", "_", "l", "e", "n", "g", "t", "h">>), emp_length_map))
    IN  NewTable(t, Assign(b, <<"l", "o", "a", "n", "_", "s", "t", "a", "t", "u", "s">>, "number",
                           MapSeries(t, Col(t, <<"l", "o", "a", "n", "_", "s", "t", "a", "t", "u", "s">>), loan_status_map)))

---------------------------------------------------------------------------
(* Step 6: apply_transformations *)

\* Series.str.strip(chars): a string cell is stripped, any other cell is missing
StripCell(c, chars) == IF c.k = "str" THEN Str(StrStrip(c.s, chars)) ELSE NaN

\* pd.to_numeric on one cell of a parsable column
NumericCell(c) == IF c.k = "str" THEN Num(ParseNum(c.s)) ELSE c

\* Series.replace with its two arguments swapped
ReplaceCellSwapped(c, old, new) == IF c = Str(new) THEN Str(old) ELSE c

\* Series.replace(old, new) on one cell
ReplaceCell(c, old, new) == IF c = Str(old) THEN Str(new) ELSE c

\* DataFrame.mean(axis="columns") of two number cells: missing cells are skipped
MeanCell(a, b) ==
    CASE IsNa(a) /\ IsNa(b) -> NaN
      [] IsNa(a) -> b
      [] IsNa(b) -> a
      [] OTHER -> Num((a.n + b.n) \div 2)

\* the first exception of the chain: a missing column, .str on a column that is
\* not of strings, to_numeric on a string that is no number, mean of strings
apply_transformations_raises(t) ==
    CASE ~HasCol(t, <<"t", "e", "r", "m">>) -> "KeyError"
      [] Col(t, <<"t", "e", "r", "m">>).dtype # "object" -> "AttributeError"
      [] ~HasCol(t, <<"r", "e", "v", "o", "l", "_", "u", "t", "i", "l">>) -> "KeyError"
      [] Col(t, <<"r", "e", "v", "o", "l", "_", "u", "t", "i", "l">>).dtype # "object" -> "AttributeError"
      [] (\E r \in t.index :
            LET c == StripCell(Col(t, <<"r", "e", "v", "o", "l", "_", "u", "t", "i", "l">>).data[r], {"%"})
            IN  c.k = "str" /\ ~Parses(c.s)) -> "ValueError"
      [] ~HasCol(t, <<"h", "o", "m", "e", "_", "o", "w", "n", "e", "r", "s", "h", "i", "p">>) -> "KeyError"
      [] (~HasCol(t, <<"f", "i", "c", "o", "_", "r", "a", "n", "g", "e", "_", "l", "o", "w">>) \/ ~HasCol(t, <<"f", "i", "c", "o", "_", "r", "a", "n", "g", "e", "_", "h", "i", "g", "h">>)) -> "KeyError"
      [] (Col(t, <<"f", "i", "c", "o", "_", "r", "a", "n", "g", "e", "_", "l", "o", "w">>).dtype # "number"
            \/ Col(t, <<"f", "i", "c", "o", "_", "r", "a", "n", "g", "e", "_", "h", "i", "g", "h">>).dtype # "number") -> "TypeError"
      [] OTHER -> "none"

apply_transformations(t) ==
    LET term  == Col(t, <<"t", "e", "r", "m">>)
        revol == Col(t, <<"r", "e", "v", "o", "l", "_", "u", "t", "i", "l">>)
        home  == Col(t, <<"h", "o", "m", "e", "_", "o", "w", "n", "e", "r", "s", "h", "i", "p">>)
        low   == Col(t, <<"f", "i", "c", "o", "_", "r", "a", "n", "g", "e", "_", "l", "o", "w">>)
        high  == Col(t, <<"f", "i", "c", "o", "_", "r", "a", "n", "g", "e", "_", "h", "i", "g", "h">>)
        a == Assign(t, <<"t", "e", "r", "m">>, "object",
                    [r \in t.index |-> StripCell(term.data[r], SetOf(<<"m", "o", "n", "t", "h", "s">>))])
        b == Assign(a, <<"r", "e", "v", "o", "l", "_", "u", "t", "i", "l">>, "number",
                    [r \in t.index |-> NumericCell(StripCell(revol.data[r], {"%"}))])
        c == Assign(b, <<"h", "o", "m", "e", "_", "o", "w", "n", "e", "r", "s", "h", "i", "p">>, home.dtype,
                    [r \in t.index |-> ReplaceCell(home.data[r], <<"N", "O", "N", "E">>, <<"O", "T", "H", "E", "R">>)])
        d == Assign(c, <<"f", "i", "c", "o", "_", "a", "v", "g">>, "number",
                    [r \in t.index |-> MeanCell(low.data[r], high.data[r])])
    IN  NewTable(t, Drop(d, {<<"f", "i", "c", "o", "_", "r", "a", "n", "g", "e", "_", "l", "o", "w">>, <<"f", "i", "c", "o", "_", "r", "a", "n", "g", "e", "_", "h", "i", "g", "h">>}))

---------------------------------------------------------------------------
(* Step 7: handle_outliers *)

\* the non-missing numbers of a column in ascending order
RECURSIVE SortedVals(_, _)
SortedVals(rows, data) ==
    IF rows = {} THEN <<>>
    ELSE LET r == CHOOSE x \in rows : \A y \in rows : data[x].n <= data[y].n
         IN  <<data[r].n>> \o SortedVals(rows \ {r}, data)

Present(t, c) == SortedVals({r \in t.index : ~IsNa(c.data[r])}, c.data)

\* Series.quantile(num / QDen) of the ascending non-empty sequence v: linear
\* interpolation at position (len - 1) * num / QDen
Quantile(v, num) ==
    LET h  == (Len(v) - 1) * num
        lo == h \div QDen + 1
        hi == Min(lo + 1, Len(v))
    IN  v[lo] + ((v[hi] - v[lo]) * (h % QDen)) \div QDen

\* Series.clip(lower) with the upper bound forgotten
ClipCellLowerOnly(c, lower, upper) == IF IsNa(c) THEN c ELSE Num(Max(c.n, lower))

\* Series.clip(lower, upper) on one cell
ClipCell(c, lower, upper) == IF IsNa(c) THEN c ELSE Num(Min(Max(c.n, lower), upper))

\* loans[feature].clip(lower=quantile(0.05), upper=quantile(0.95)); the quantiles
\* of a column with no number are missing and clip then changes nothing
ClipColumn(t, c) ==
    LET v == Present(t, c)
    IN  IF v = <<>> THEN c
        ELSE Column(c.name, c.dtype,
                    [r \in t.index |->
                        ClipCell(c.data[r], Quantile(v, QLow), Quantile(v, QHigh))])

\* every column of select_dtypes(include="number") is assigned into loans itself,
\* and loans is returned
handle_outliers(t) ==
    InPlace(Table(t.index,
                  [i \in 1..Len(t.columns) |->
                      IF t.columns[i].dtype = "number" THEN ClipColumn(t, t.columns[i])
                      ELSE t.columns[i]]))

---------------------------------------------------------------------------
(* Step 8: create_dummies *)

DummyColumns == << <<"h", "o", "m", "e", "_", "o", "w", "n", "e", "r", "s", "h", "i", "p">>, <<"v", "e", "r", "i", "f", "i", "c", "a", "t", "i", "o", "n", "_", "s", "t", "a", "t", "u", "s">>, <<"p", "u", "r", "p", "o", "s", "e">>, <<"t", "e", "r", "m">> >>

RECURSIVE SortStrs(_)
SortStrs(set) ==
    IF set = {} THEN <<>>
    ELSE LET s == CHOOSE x \in set : \A y \in set \ {x} : StrLess(x, y)
         IN  <<s>> \o SortStrs(set \ {s})

\* the levels of a column: its distinct strings, sorted
Levels(t, c) == SortStrs({c.data[r].s : r \in {x \in t.index : c.data[x].k = "str"}})

\* pd.get_dummies(..., dtype=int) of one column of strings: one 0/1 column per
\* level, called <column>_<level>
DummiesOf(t, c) ==
    LET lv == Levels(t, c)
    IN  [i \in 1..Len(lv) |->
            Column(c.name \o <<"_">> \o lv[i], "number",
                   [r \in t.index |->
                       IF c.data[r] = Str(lv[i]) THEN Num(Unit) ELSE Num(0)])]

\* get_dummies encodes the listed columns that hold strings; a listed column of
\* numbers is passed through as it is, and drop(columns=columns) then removes it
\* together with the original
RECURSIVE AllDummies(_, _)
AllDummies(t, names) ==
    IF names = <<>> THEN <<>>
    ELSE (IF Col(t, Head(names)).dtype = "object"
          THEN DummiesOf(t, Col(t, Head(names))) ELSE <<>>)
         \o AllDummies(t, Tail(names))

\* DataFrame.dropna(): the rows with no missing cell
DropNa(t) ==
    Rows(t, {r \in t.index : \A i \in 1..Len(t.columns) : ~IsNa(t.columns[i].data[r])})

create_dummies_raises(t) ==
    IF SetOf(DummyColumns) \subseteq ColNames(t) THEN "none" ELSE "KeyError"

\* create_dummies without its final dropna()
create_dummies_keeps_na(t) ==
    NewTable(t, Drop(Table(t.index, t.columns \o AllDummies(t, DummyColumns)),
                     SetOf(DummyColumns)))

create_dummies(t) ==
    NewTable(t, DropNa(Drop(Table(t.index, t.columns \o AllDummies(t, DummyColumns)),
                            SetOf(DummyColumns))))

---------------------------------------------------------------------------
(* Step 9: to_upper *)

\* col.replace(" ", "").upper()
UpperName(name) == StrUpper(StrRemove(name, " "))

\* to_upper without col.replace(" ", "")
to_upper_keeps_spaces(t) ==
    InPlace(Table(t.index,
                  [i \in 1..Len(t.columns) |->
                      Column(StrUpper(t.columns[i].name), t.columns[i].dtype,
                             t.columns[i].data)]))

\* loans.columns is assigned, and loans is returned
to_upper(t) ==
    InPlace(Table(t.index,
                  [i \in 1..Len(t.columns) |->
                      Column(UpperName(t.columns[i].name), t.columns[i].dtype,
                             t.columns[i].data)]))

---------------------------------------------------------------------------
(* The input tables of the model *)

\* the raw columns that execute_processing reads and keeps, with their dtype
FeatureColumns ==
    << <<<<"l", "o", "a", "n", "_", "s", "t", "a", "t", "u", "s">>, "object">>, <<<<"g", "r", "a", "d", "e">>, "object">>,
       <<<<"e", "m", "p", "_", "l", "e", "n", "g", "t", "h">>, "object">>, <<<<"t", "e", "r", "m">>, "object">>,
       <<<<"r", "e", "v", "o", "l", "_", "u", "t", "i", "l">>, "object">>, <<<<"h", "o", "m", "e", "_", "o", "w", "n", "e", "r", "s", "h", "i", "p">>, "object">>,
       <<<<"v", "e", "r", "i", "f", "i", "c", "a", "t", "i", "o", "n", "_", "s", "t", "a", "t", "u", "s">>, "object">>, <<<<"p", "u", "r", "p", "o", "s", "e">>, "object">>,
       <<<<"f", "i", "c", "o", "_", "r", "a", "n", "g", "e", "_", "l", "o", "w">>, "number">>, <<<<"f", "i", "c", "o", "_", "r", "a", "n", "g", "e", "_", "h", "i", "g", "h">>, "number">>,
       <<<<"l", "o", "a", "n", "_", "a", "m", "n", "t">>, "number">> >>

\* the kinds of loan an input row is drawn from
LoanKinds ==
    << \* the loan of the end-to-end scenario
       [loan_status |-> Str(<<"F", "u", "l", "l", "y", " ", "P", "a", "i", "d">>), grade |-> Str(<<"B">>),
        emp_length |-> Str(<<"5", " ", "y", "e", "a", "r", "s">>), term |-> Str(<<" ", "3", "6", " ", "m", "o", "n", "t", "h", "s">>),
        revol_util |-> Str(<<"4", "5", ".", "2", "%">>), home_ownership |-> Str(<<"N", "O", "N", "E">>),
        verification_status |-> Str(<<"V", "e", "r", "i", "f", "i", "e", "d">>), purpose |-> Str(<<"c", "a", "r">>),
        fico_range_low |-> Num(700 * Unit), fico_range_high |-> Num(704 * Unit),
        loan_amnt |-> Num(1000 * Unit), desc |-> Str(<<"a">>)],
       \* a charged-off loan
       [loan_status |-> Str(<<"C", "h", "a", "r", "g", "e", "d", " ", "O", "f", "f">>), grade |-> Str(<<"D">>),
        emp_length |-> Str(<<"1", "0", "+", " ", "y", "e", "a", "r", "s">>), term |-> Str(<<" ", "6", "0", " ", "m", "o", "n", "t", "h", "s">>),
        revol_util |-> Str(<<"8", "0", "%">>), home_ownership |-> Str(<<"R", "E", "N", "T">>),
        verification_status |-> Str(<<"S", "o", "u", "r", "c", "e", " ", "V", "e", "r", "i", "f", "i", "e", "d">>),
        purpose |-> Str(<<"c", "r", "e", "d", "i", "t", "_", "c", "a", "r", "d">>),
        fico_range_low |-> Num(660 * Unit), fico_range_high |-> Num(664 * Unit),
        loan_amnt |-> Num(2000 * Unit), desc |-> Str(<<"b">>)],
       \* a paid loan with no description
       [loan_status |-> Str(<<"F", "u", "l", "l", "y", " ", "P", "a", "i", "d">>), grade |-> Str(<<"A">>),
        emp_length |-> Str(<<"<", " ", "1", " ", "y", "e", "a", "r">>), term |-> Str(<<" ", "3", "6", " ", "m", "o", "n", "t", "h", "s">>),
        revol_util |-> Str(<<"1", "0", ".", "5", "%">>), home_ownership |-> Str(<<"M", "O", "R", "T", "G", "A", "G", "E">>),
        verification_status |-> Str(<<"N", "o", "t", " ", "V", "e", "r", "i", "f", "i", "e", "d">>), purpose |-> Str(<<"o", "t", "h", "e", "r">>),
        fico_range_low |-> Num(720 * Unit), fico_range_high |-> Num(724 * Unit),
        loan_amnt |-> Num(3000 * Unit), desc |-> NaN],
       \* a loan with a grade outside A..G and missing cells
       [loan_status |-> Str(<<"C", "h", "a", "r", "g", "e", "d", " ", "O", "f", "f">>), grade |-> Str(<<"Z">>),
        emp_length |-> NaN, term |-> Str(<<" ", "6", "0", " ", "m", "o", "n", "t", "h", "s">>),
        revol_util |-> NaN, home_ownership |-> Str(<<"O", "W", "N">>),
        verification_status |-> Str(<<"V", "e", "r", "i", "f", "i", "e", "d">>), purpose |-> Str(<<"c", "a", "r">>),
        fico_range_low |-> Num(680 * Unit), fico_range_high |-> NaN,
        loan_amnt |-> NaN, desc |-> NaN],
       \* a loan that is neither paid nor charged off
       [loan_status |-> Str(<<"C", "u", "r", "r", "e", "n", "t">>), grade |-> Str(<<"C">>),
        emp_length |-> Str(<<"2", " ", "y", "e", "a", "r", "s">>), term |-> Str(<<" ", "3", "6", " ", "m", "o", "n", "t", "h", "s">>),
        revol_util |-> Str(<<"3", "0", "%">>), home_ownership |-> Str(<<"R", "E", "N", "T">>),
        verification_status |-> Str(<<"V", "e", "r", "i", "f", "i", "e", "d">>), purpose |-> Str(<<"o", "t", "h", "e", "r">>),
        fico_range_low |-> Num(700 * Unit), fico_range_high |-> Num(704 * Unit),
        loan_amnt |-> Num(5000 * Unit), desc |-> Str(<<"c">>)],
       \* a loan whose employment length is not a key of emp_length_map
       [loan_status |-> Str(<<"F", "u", "l", "l", "y", " ", "P", "a", "i", "d">>), grade |-> Str(<<"G">>),
        emp_length |-> Str(<<"n", "/", "a">>), term |-> Str(<<" ", "3", "6", " ", "m", "o", "n", "t", "h", "s">>),
        revol_util |-> Str(<<"0", "%">>), home_ownership |-> Str(<<"O", "W", "N">>),
        verification_status |-> Str(<<"N", "o", "t", " ", "V", "e", "r", "i", "f", "i", "e", "d">>), purpose |-> Str(<<"c", "a", "r">>),
        fico_range_low |-> Num(690 * Unit), fico_range_high |-> Num(694 * Unit),
        loan_amnt |-> Num(1500 * Unit), desc |-> Str(<<"d">>)] >>

\* the cell of a loan of kind k in column name
RawCell(k, name) ==
    CASE name = <<"l", "o", "a", "n", "_", "s", "t", "a", "t", "u", "s">> -> LoanKinds[k].loan_status
      [] name = <<"g", "r", "a", "d", "e">> -> LoanKinds[k].grade
      [] name = <<"e", "m", "p", "_", "l", "e", "n", "g", "t", "h">> -> LoanKinds[k].emp_length
      [] name = <<"t", "e", "r", "m">> -> LoanKinds[k].term
      [] name = <<"r", "e", "v", "o", "l", "_", "u", "t", "i", "l">> -> LoanKinds[k].revol_util
      [] name = <<"h", "o", "m", "e", "_", "o", "w", "n", "e", "r", "s", "h", "i", "p">> -> LoanKinds[k].home_ownership
      [] name = <<"v", "e", "r", "i", "f", "i", "c", "a", "t", "i", "o", "n", "_", "s", "t", "a", "t", "u", "s">> -> LoanKinds[k].verification_status
      [] name = <<"p", "u", "r", "p", "o", "s", "e">> -> LoanKinds[k].purpose
      [] name = <<"f", "i", "c", "o", "_", "r", "a", "n", "g", "e", "_", "l", "o", "w">> -> LoanKinds[k].fico_range_low
      [] name = <<"f", "i", "c", "o", "_", "r", "a", "n", "g", "e", "_", "h", "i", "g", "h">> -> LoanKinds[k].fico_range_high
      [] name = <<"l", "o", "a", "n", "_", "a", "m", "n", "t">> -> LoanKinds[k].loan_amnt
      [] name = <<"d", "e", "s", "c">> -> LoanKinds[k].desc
      [] OTHER -> Num(k * Unit)

RECURSIVE Dedup(_)
Dedup(s) ==
    IF s = <<>> THEN <<>>
    ELSE LET init == Dedup(SubSeq(s, 1, Len(s) - 1))
         IN  IF InSeq(init, s[Len(s)]) THEN init ELSE Append(init, s[Len(s)])

\* the columns of a raw table: the feature columns, then the columns that
\* remove_unnecessary_columns lists (once each; desc holds text)
RawColumns ==
    FeatureColumns
    \o [i \in 1..Len(Dedup(UnnecessaryColumns)) |->
           <<Dedup(UnnecessaryColumns)[i],
             IF Dedup(UnnecessaryColumns)[i] = <<"d", "e", "s", "c">> THEN "object" ELSE "number">>]

\* the raw table whose row r is a loan of kind kinds[r], without the columns absent
RawTable(kinds, absent) ==
    LET keep == SelectSeq(RawColumns, LAMBDA c : c[1] \notin absent)
    IN  Table(DOMAIN kinds,
              [i \in 1..Len(keep) |->
                  Column(keep[i][1], keep[i][2],
                         [r \in DOMAIN kinds |-> RawCell(kinds[r], keep[i][1])])])

\* the sets of columns an input table may lack
AbsentChoices == { {}, {<<"i", "d">>}, {<<"l", "o", "a", "n", "_", "s", "t", "a", "t", "u", "s">>}, {<<"l", "o", "a", "n", "_", "s", "t", "a", "t", "u", "s">>, <<"i", "d">>}, {<<"t", "e", "r", "m">>} }

\* the rows of an input table, by kind
KindLists == UNION { [1..n -> 1..Len(LoanKinds)] : n \in 0..MaxRows }

---------------------------------------------------------------------------
(* execute_processing *)

\* the steps execute_processing pipes the table through, in its order
Steps ==
    << "filter_loan_status", "filter_missing_data", "filter_non_unique_values",
       "remove_unnecessary_columns", "map_categorical", "apply_transformations",
       "handle_outliers", "create_dummies", "to_upper" >>

NoError == [step |-> 0, kind |-> "none"]

\* the run ended with an exception
Raised == err.kind # "none"

\* execute_processing returned loans
Returned == pc = Len(Steps) + 1

\* step k was the last step to run, and it returned
After(k) == pc = k + 1 /\ ~Raised

\* the table passed to step k, as it was at the call
Arg(k) == IF k = 1 THEN input ELSE hist[k - 1]

Init ==
    /\ \E kinds \in KindLists, absent \in AbsentChoices :
           input = RawTable(kinds, absent)
    /\ loans = input
    /\ hist = <<>>
    /\ argPost = input
    /\ pc = 1
    /\ ran = <<>>
    /\ err = NoError

\* one .pipe(step) of execute_processing: step k starts; it either raises, which
\* ends the run, or it returns out.ret and leaves the table it was passed as out.arg
Pipe(k, raises, out) ==
    /\ pc = k
    /\ ~Raised
    /\ ran' = Append(ran, k)
    /\ IF raises # "none"
       THEN /\ err' = [step |-> k, kind |-> raises]
            /\ UNCHANGED <<pc, input, hist, argPost, loans>>
       ELSE /\ pc' = k + 1
            /\ hist' = Append(hist, out.ret)
            /\ argPost' = out.arg
            /\ loans' = out.ret
            /\ UNCHANGED <<input, err>>

FilterLoanStatus == Pipe(1, filter_loan_status_raises(loans), filter_loan_status(loans))
FilterMissingData == Pipe(2, "none", filter_missing_data(loans))
FilterNonUniqueValues == Pipe(3, "none", filter_non_unique_values(loans))
RemoveUnnecessaryColumns ==
    Pipe(4, remove_unnecessary_columns_raises(loans), remove_unnecessary_columns(loans))
MapCategorical == Pipe(5, map_categorical_raises(loans), map_categorical(loans))
ApplyTransformations ==
    Pipe(6, apply_transformations_raises(loans), apply_transformations(loans))
HandleOutliers == Pipe(7, "none", handle_outliers(loans))
CreateDummies == Pipe(8, create_dummies_raises(loans), create_dummies(loans))
ToUpper == Pipe(9, "none", to_upper(loans))

Next ==
    \/ FilterLoanStatus
    \/ FilterMissingData
    \/ FilterNonUniqueValues
    \/ RemoveUnnecessaryColumns
    \/ MapCategorical
    \/ ApplyTransformations
    \/ HandleOutliers
    \/ CreateDummies
    \/ ToUpper

Spec == Init /\ [][Next]_vars

---------------------------------------------------------------------------
(* Properties *)

\* the cell of row r in the column called name
Cell(t, name, r) == Col(t, name).data[r]

HasPrefix(name, prefix) ==
    Len(name) >= Len(prefix) /\ SubSeq(name, 1, Len(prefix)) = prefix

\* the columns of t whose name starts with prefix, but for the one called except
OtherIndicators(t, prefix, except) ==
    {i \in 1..Len(t.columns) :
        HasPrefix(t.columns[i].name, prefix) /\ t.columns[i].name # except}

\* the rows of the table passed to step 1 that filter_loan_status keeps
KeptRows ==
    IF HasCol(input, <<"l", "o", "a", "n", "_", "s", "t", "a", "t", "u", "s">>)
    THEN {r \in input.index : Cell(input, <<"l", "o", "a", "n", "_", "s", "t", "a", "t", "u", "s">>, r) \in KeptStatuses}
    ELSE {}

\* C1: when execute_processing returns, no cell of the returned table is missing
\* and every column name is upper-case (holds no lower-case letter) and holds no
\* space.
C1_OutputClean ==
    Returned =>
        \A i \in 1..Len(loans.columns) :
            /\ \A r \in loans.index : ~IsNa(loans.columns[i].data[r])
            /\ \A j \in 1..Len(loans.columns[i].name) :
                  /\ loans.columns[i].name[j] # " "
                  /\ ~InSeq(LowerCase, loans.columns[i].name[j])

\* a run that returned a non-empty table after create_dummies dropped a row with
\* a missing cell and to_upper renamed a column whose name held a space
C1_Witness ==
    /\ Returned
    /\ loans.index # {}
    /\ loans.index # KeptRows
    /\ \E i \in 1..Len(hist[8].columns) : InSeq(hist[8].columns[i].name, " ")

\* the loan of the end-to-end scenario, as the claim gives it
Scenario ==
    (<<"l", "o", "a", "n", "_", "s", "t", "a", "t", "u", "s">> :> Str(<<"F", "u", "l", "l", "y", " ", "P", "a", "i", "d">>)) @@ (<<"g", "r", "a", "d", "e">> :> Str(<<"B">>))
    @@ (<<"e", "m", "p", "_", "l", "e", "n", "g", "t", "h">> :> Str(<<"5", " ", "y", "e", "a", "r", "s">>)) @@ (<<"t", "e", "r", "m">> :> Str(<<" ", "3", "6", " ", "m", "o", "n", "t", "h", "s">>))
    @@ (<<"r", "e", "v", "o", "l", "_", "u", "t", "i", "l">> :> Str(<<"4", "5", ".", "2", "%">>)) @@ (<<"f", "i", "c", "o", "_", "r", "a", "n", "g", "e", "_", "l", "o", "w">> :> Num(700 * Unit))
    @@ (<<"f", "i", "c", "o", "_", "r", "a", "n", "g", "e", "_", "h", "i", "g", "h">> :> Num(704 * Unit)) @@ (<<"h", "o", "m", "e", "_", "o", "w", "n", "e", "r", "s", "h", "i", "p">> :> Str(<<"N", "O", "N", "E">>))

IsScenario(t, r) ==
    \A name \in DOMAIN Scenario : HasCol(t, name) /\ Cell(t, name, r) = Scenario[name]

\* what the claim and the code agree on: the home-ownership indicators and the
\* absence of the two FICO range columns
ScenarioIndicators(r) ==
    /\ HasCol(loans, <<"H", "O", "M", "E", "_", "O", "W", "N", "E", "R", "S", "H", "I", "P", "_", "O", "T", "H", "E", "R">>)
    /\ Cell(loans, <<"H", "O", "M", "E", "_", "O", "W", "N", "E", "R", "S", "H", "I", "P", "_", "O", "T", "H", "E", "R">>, r) = Num(Unit)
    /\ \A i \in OtherIndicators(loans, <<"H", "O", "M", "E", "_", "O", "W", "N", "E", "R", "S", "H", "I", "P", "_">>, <<"H", "O", "M", "E", "_", "O", "W", "N", "E", "R", "S", "H", "I", "P", "_", "O", "T", "H", "E", "R">>) :
          loans.columns[i].data[r] = Num(0)
    /\ ~HasCol(loans, <<"F", "I", "C", "O", "_", "R", "A", "N", "G", "E", "_", "L", "O", "W">>)
    /\ ~HasCol(loans, <<"F", "I", "C", "O", "_", "R", "A", "N", "G", "E", "_", "H", "I", "G", "H">>)

ClippedAt7(name, n) ==
    LET v == Present(hist[6], Col(hist[6], name))
    IN  ClipCell(Num(n), Quantile(v, QLow), Quantile(v, QHigh))

C3_GradeAndStatusCodes ==
    Returned =>
        \A r \in loans.index :
            /\ Cell(loans, <<"G", "R", "A", "D", "E">>, r) \in {Num(g * Unit) : g \in 1..7}
            /\ Cell(loans, <<"L", "O", "A", "N", "_", "S", "T", "A", "T", "U", "S">>, r) \in {Num(0), Num(Unit)}

\* C4: after handle_outliers every non-missing cell of a numeric column lies
\* between the 5th and the 95th percentile of that column as it was passed in.
C4_ClippedToPercentiles ==
    After(7) =>
        \A i \in 1..Len(loans.columns) :
            loans.columns[i].dtype = "number" =>
                LET v == Present(hist[6], Col(hist[6], loans.columns[i].name))
                IN  \A r \in loans.index :
                        ~IsNa(loans.columns[i].data[r]) =>
                            /\ Quantile(v, QLow) <= loans.columns[i].data[r].n
                            /\ loans.columns[i].data[r].n <= Quantile(v, QHigh)

\* handle_outliers raised a cell to the 5th percentile and lowered another to the
\* 95th
C4_Witness ==
    /\ After(7)
    /\ \E i \in 1..Len(loans.columns), r \in loans.index, q \in loans.index :
          /\ loans.columns[i].dtype = "number"
          /\ ~IsNa(loans.columns[i].data[r])
          /\ ~IsNa(loans.columns[i].data[q])
          /\ loans.columns[i].data[r].n > Cell(hist[6], loans.columns[i].name, r).n
          /\ loans.columns[i].data[q].n < Cell(hist[6], loans.columns[i].name, q).n

\* C5: every column that survives filter_missing_data on a table of n rows has
\* c non-missing cells with 2 * c >= n.
C5_HalfPresent ==
    After(2) =>
        \A i \in 1..Len(loans.columns) :
            2 * Count(loans, loans.columns[i]) >= NRows(Arg(2))

\* a column holds the same entry in every row (missing in every row included; a
\* missing entry differs from a present one)
SameInEveryRow(t, c) == \A r \in t.index, q \in t.index : c.data[r] = c.data[q]

\* C6: filter_non_unique_values removes a column exactly when the column holds
\* the same entry in every row.
C6_RemovesExactlyConstant ==
    After(3) =>
        \A i \in 1..Len(Arg(3).columns) :
            (Arg(3).columns[i].name \notin ColNames(loans))
                <=> SameInEveryRow(Arg(3), Arg(3).columns[i])

\* the keys of emp_length_map that are strings
EmpLengthStrings == {c \in DOMAIN emp_length_map : c.k = "str"}

\* C7 as stated: after map_categorical emp_length is 0 where the input was
\* missing or a string that is no key of emp_length_map, and the table's integer
\* where the input was a key.
C7_AsStated ==
    After(5) =>
        \A r \in loans.index :
            LET c == Cell(Arg(5), <<"e", "m", "p", "_", "l", "e", "n", "g", "t", "h">>, r)
            IN  IF c \in EmpLengthStrings
                THEN Cell(loans, <<"e", "m", "p", "_", "l", "e", "n", "g", "t", "h">>, r) = Num(emp_length_map[c] * Unit)
                ELSE Cell(loans, <<"e", "m", "p", "_", "l", "e", "n", "g", "t", "h">>, r) = Num(0)

\* C7 amended: after map_categorical emp_length is 0 where the input was
\* missing, the table's integer (0 to 10) where the input was a key, and missing
\* where the input was a string that is no key.
C7_Amended ==
    After(5) =>
        \A r \in loans.index :
            LET c == Cell(Arg(5), <<"e", "m", "p", "_", "l", "e", "n", "g", "t", "h">>, r)
                out == Cell(loans, <<"e", "m", "p", "_", "l", "e", "n", "g", "t", "h">>, r)
            IN  CASE IsNa(c) -> out = Num(0)
                  [] c \in EmpLengthStrings ->
                        /\ out = Num(emp_length_map[c] * Unit)
                        /\ out \in {Num(y * Unit) : y \in 0..10}
                  [] OTHER -> IsNa(out)

\* map_categorical mapped a missing employment length, a string that is a key
\* and a string that is no key
C7_Witness ==
    /\ After(5)
    /\ \E r \in loans.index : IsNa(Cell(Arg(5), <<"e", "m", "p", "_", "l", "e", "n", "g", "t", "h">>, r))
    /\ \E r \in loans.index : Cell(Arg(5), <<"e", "m", "p", "_", "l", "e", "n", "g", "t", "h">>, r) \in EmpLengthStrings
    /\ \E r \in loans.index :
          /\ Cell(Arg(5), <<"e", "m", "p", "_", "l", "e", "n", "g", "t", "h">>, r).k = "str"
          /\ Cell(Arg(5), <<"e", "m", "p", "_", "l", "e", "n", "g", "t", "h">>, r) \notin EmpLengthStrings

InPlaceSteps == {k \in 1..Len(Steps) : Steps[k] \in {"handle_outliers", "to_upper"}}

BadGradeRows ==
    IF HasCol(input, <<"g", "r", "a", "d", "e">>)
    THEN {r \in input.index : Cell(input, <<"g", "r", "a", "d", "e">>, r) \notin DOMAIN grade_map}
    ELSE {}

\* C9: a row whose grade is not one of A..G raises nothing in map_categorical
\* (which raises only for an absent column); its grade is missing after
\* map_categorical, apply_transformations and handle_outliers, and the row is not
\* in the table execute_processing returns.
C9_BadGradeDropped ==
    /\ (Raised /\ err.step = 5) =>
          ~({<<"g", "r", "a", "d", "e">>, <<"e", "m", "p", "_", "l", "e", "n", "g", "t", "h">>, <<"l", "o", "a", "n", "_", "s", "t", "a", "t", "u", "s">>} \subseteq ColNames(loans))
    /\ \A r \in BadGradeRows :
          /\ \A k \in 5..7 :
                (After(k) /\ r \in loans.index) => IsNa(Cell(loans, <<"g", "r", "a", "d", "e">>, r))
          /\ Returned => r \notin loans.index

\* a run that returned, in which a row with a grade outside A..G went through
\* handle_outliers
C9_Witness ==
    /\ Returned
    /\ loans.index # {}
    /\ \E r \in BadGradeRows : r \in hist[7].index

\* the run is over
Terminal == Raised \/ Returned

\* ran is 1, 2, ..., in this order
InOrder == ran = [i \in 1..Len(ran) |-> i]

\* a listed column is not there when step 4 starts: it is absent from the input,
\* or step 2 or step 3 removed it
ListedColumnGone ==
    \/ ~(SetOf(UnnecessaryColumns) \subseteq ColNames(input))
    \/ (Len(hist) >= 3 /\ ~(SetOf(UnnecessaryColumns) \subseteq ColNames(hist[3])))

EndsAtStep4 == err = [step |-> 4, kind |-> "KeyError"] /\ ran = <<1, 2, 3, 4>>

\* the steps run once each in the order 1 to 9, and a table is returned only if
\* every listed column is there when step 4 starts
RunsInOrder ==
    /\ InOrder
    /\ Returned =>
          /\ Len(ran) = Len(Steps)
          /\ SetOf(UnnecessaryColumns) \subseteq ColNames(Arg(4))

\* C10 as stated: the steps run in order, a table is returned only if every
\* listed column is there when step 4 starts, and a run in which a listed column
\* is gone ends at step 4 with a column-not-found error.
C10_AsStated ==
    /\ RunsInOrder
    /\ (Terminal /\ ListedColumnGone) => EndsAtStep4

\* C10 amended: as stated for an input that has a loan_status column; an input
\* without one ends at step 1 with a column-not-found error.
C10_Amended ==
    /\ RunsInOrder
    /\ (Terminal /\ ListedColumnGone /\ HasCol(input, <<"l", "o", "a", "n", "_", "s", "t", "a", "t", "u", "s">>)) => EndsAtStep4
    /\ (Terminal /\ ~HasCol(input, <<"l", "o", "a", "n", "_", "s", "t", "a", "t", "u", "s">>)) =>
          (err = [step |-> 1, kind |-> "KeyError"] /\ ran = <<1>>)

\* a run ended at step 4 because step 2 or step 3 removed a listed column that
\* the input had
C10_Witness ==
    /\ Raised
    /\ err.step = 4
    /\ SetOf(UnnecessaryColumns) \subseteq ColNames(input)
    /\ NRows(hist[1]) >= 2

=============================================================================
